---- MODULE Spec2Model ----
(***************************************************************************)
(* Model of psu_growth_analysis.py: the per-symbol "first half vs second   *)
(* half of the month" analysis (analyze_stock_pattern) and the batch       *)
(* runner (main); and of the main loop of stock_top5_with_ai.py.           *)
(*                                                                         *)
(* Python floats are modelled as exact rationals [n, d] in lowest terms,   *)
(* d > 0.  A dataframe of daily closes is a function from dates            *)
(* <<year, month, day>> (the DatetimeIndex) to the Close value.            *)
(***************************************************************************)
EXTENDS Integers, Sequences, FiniteSets, TLC

VARIABLES pc, idx, results, results_df, display_df, csv, top_picks, fetched, call,
          top5_stocks, ai_results, summary_df, outcomes

\* the state of stock_top5_with_ai.py: the selected rows, its results list,
\* the summary saved, and what the AI endpoint and the live-price API
\* answered for each stock so far
ai_vars == <<top5_stocks, ai_results, summary_df, outcomes>>

vars == <<pc, idx, results, results_df, display_df, csv, top_picks, fetched, call, ai_vars>>

\* stock_top5_with_ai.py not running
AIIdle ==
    /\ top5_stocks = <<>>
    /\ ai_results = <<>>
    /\ summary_df = <<>>
    /\ outcomes = <<>>

(***************************************************************************)
(* Bounds of the model and constants of the program.                       *)
(***************************************************************************)
\* symbols kept of PSU_STOCKS and of GROWTH_STOCKS
NumPSU == 2
NumGrowth == 1
\* rows of a small dataframe, months of a long one
MaxRows == 4
MaxMonths == 7
\* day-of-month that ends the first half (group['Day'] <= 15)
HalfDay == 15
\* stats_df.tail(6)
RecentWindow == 6
\* results_df.head(5)
TopN == 5

\* Python None, as a value comparable with the result dictionaries
None == [IsNone |-> TRUE]

(***************************************************************************)
(* Exact arithmetic standing for Python float arithmetic.                  *)
(***************************************************************************)
Abs(x) == IF x < 0 THEN -x ELSE x

RECURSIVE GCD(_, _)
GCD(a, b) == IF b = 0 THEN a ELSE GCD(b, a % b)

Rat(n, d) ==
    LET s == IF d < 0 THEN -1 ELSE 1
        g == GCD(Abs(n), Abs(d))
    IN  [n |-> (s * n) \div g, d |-> (s * d) \div g]

RAdd(a, b) == Rat(a.n * b.d + b.n * a.d, a.d * b.d)
RSub(a, b) == Rat(a.n * b.d - b.n * a.d, a.d * b.d)
RMul(a, b) == Rat(a.n * b.n, a.d * b.d)
\* a / b for b # 0
RDiv(a, b) == Rat(a.n * b.d, a.d * b.n)
RInt(k) == [n |-> k, d |-> 1]
RLess(a, b) == a.n * b.d < b.n * a.d
RLeq(a, b) == a.n * b.d <= b.n * a.d
RPos(a) == a.n > 0
RZero(a) == a.n = 0

RECURSIVE SumSet(_, _)
\* sum of f[x] over the finite set S
SumSet(f, S) ==
    IF S = {} THEN 0
    ELSE LET x == CHOOSE y \in S : TRUE IN f[x] + SumSet(f, S \ {x})

RECURSIVE RSumSeq(_)
RSumSeq(s) == IF s = <<>> THEN RInt(0) ELSE RAdd(Head(s), RSumSeq(Tail(s)))

\* Series.mean() of a non-empty sequence of floats
RMean(s) == RDiv(RSumSeq(s), RInt(Len(s)))

(***************************************************************************)
(* Configuration (lines 10-21).                                            *)
(***************************************************************************)
PSU_LIST ==
    <<"SBIN.NS", "NTPC.NS", "ONGC.NS", "HAL.NS", "BEL.NS",
      "COALINDIA.NS", "POWERGRID.NS", "BPCL.NS", "IOC.NS", "PFC.NS">>

GROWTH_LIST ==
    <<"BAJFINANCE.NS", "TITAN.NS", "TRENT.NS", "VBL.NS", "PIIND.NS",
      "ASTRAL.NS", "POLYCAB.NS", "DIXON.NS", "KPITTECH.NS", "LTIM.NS">>

PSU_STOCKS == SubSeq(PSU_LIST, 1, NumPSU)
GROWTH_STOCKS == SubSeq(GROWTH_LIST, 1, NumGrowth)
ALL_STOCKS == PSU_STOCKS \o GROWTH_STOCKS

Range(s) == {s[i] : i \in 1..Len(s)}

(***************************************************************************)
(* analyze_stock_pattern: grouping, halves, monthly statistics.            *)
(***************************************************************************)
\* the (Year, Month) keys of df
GroupKeys(df) == {<<t[1], t[2]>> : t \in DOMAIN df}

\* a wrong order of the keys: by Month, then by Year
KeyLessByMonth(a, b) == a[2] < b[2] \/ (a[2] = b[2] /\ a[1] < b[1])

\* order of the groupby keys: by Year, then by Month
KeyLess(a, b) == a[1] < b[1] \/ (a[1] = b[1] /\ a[2] < b[2])

RECURSIVE SortKeys(_)
SortKeys(K) ==
    IF K = {} THEN <<>>
    ELSE LET k == CHOOSE x \in K : \A y \in K \ {x} : KeyLess(x, y)
         IN  <<k>> \o SortKeys(K \ {k})

\* df.groupby(['Year', 'Month']) iterates its groups in sorted key order
GroupByYearMonth(df) == SortKeys(GroupKeys(df))

\* the rows of the group of key
Group(df, key) == {t \in DOMAIN df : t[1] = key[1] /\ t[2] = key[2]}

\* a first half that leaves day 15 out
first_half_strict(df, key) == {t \in Group(df, key) : t[3] < HalfDay}

first_half(df, key) == {t \in Group(df, key) : t[3] <= HalfDay}
second_half(df, key) == {t \in Group(df, key) : t[3] > HalfDay}

\* half['Close'].mean().item() of a non-empty half
MeanClose(df, half) == Rat(SumSet(df, half), Cardinality(half))

\* the condition of line 58
BothHalves(df, key) == first_half(df, key) # {} /\ second_half(df, key) # {}

\* a label that calls an unchanged month 'Up'
TrendOfNonNegative(change_pct) == IF change_pct.n >= 0 THEN "Up" ELSE "Down"

\* 'Up' if change_pct > 0 else 'Down'
TrendOf(change_pct) == IF RPos(change_pct) THEN "Up" ELSE "Down"

\* the dictionary appended at lines 65-72, for avg_first # 0
MonthRow(df, key) ==
    LET avg_first == MeanClose(df, first_half(df, key))
        avg_second == MeanClose(df, second_half(df, key))
        change_pct == RMul(RDiv(RSub(avg_second, avg_first), avg_first), RInt(100))
    IN  [Year |-> key[1], Month |-> key[2],
         Avg_First_Half |-> avg_first, Avg_Second_Half |-> avg_second,
         Change_Pct |-> change_pct, Trend |-> TrendOf(change_pct)]

\* float division by 0.0 raises ZeroDivisionError at line 63
RaisesZeroDivision(df, key) ==
    BothHalves(df, key) /\ RZero(MeanClose(df, first_half(df, key)))

RECURSIVE MonthLoopSkipZero(_, _, _)
\* a loop that guards the division and skips a month of first-half average 0
MonthLoopSkipZero(df, keys, acc) ==
    IF keys = <<>> THEN [monthly_stats |-> acc, raised |-> FALSE]
    ELSE IF BothHalves(df, Head(keys)) /\ ~RaisesZeroDivision(df, Head(keys))
         THEN MonthLoopSkipZero(df, Tail(keys), Append(acc, MonthRow(df, Head(keys))))
    ELSE MonthLoopSkipZero(df, Tail(keys), acc)

RECURSIVE MonthLoop(_, _, _)
\* the loop of lines 51-72 over the remaining keys; acc is monthly_stats.
\* It ends with the list built, or with the exception raised in the loop.
MonthLoop(df, keys, acc) ==
    IF keys = <<>> THEN [monthly_stats |-> acc, raised |-> FALSE]
    ELSE IF RaisesZeroDivision(df, Head(keys))
         THEN [monthly_stats |-> acc, raised |-> TRUE]
    ELSE IF BothHalves(df, Head(keys))
         THEN MonthLoop(df, Tail(keys), Append(acc, MonthRow(df, Head(keys))))
    ELSE MonthLoop(df, Tail(keys), acc)

ChangeCol(stats) == [i \in 1..Len(stats) |-> stats[i].Change_Pct]

\* a count of wins that takes an unchanged month for a win
WinsNonNegative(stats) == Cardinality({i \in 1..Len(stats) : stats[i].Change_Pct.n >= 0})

\* stats_df[stats_df['Change_Pct'] > 0].shape[0]
Wins(stats) == Cardinality({i \in 1..Len(stats) : RPos(stats[i].Change_Pct)})

\* line 81
WinRate(stats) == RMul(RDiv(RInt(Wins(stats)), RInt(Len(stats))), RInt(100))

\* DataFrame.tail(n)
TailN(s, n) == IF Len(s) <= n THEN s ELSE SubSeq(s, Len(s) - n + 1, Len(s))

\* a recent trend taken over the first months instead of the last
RecentAvgChangeHead(stats) ==
    RMean(ChangeCol(SubSeq(stats, 1, IF Len(stats) < RecentWindow THEN Len(stats)
                                      ELSE RecentWindow)))

\* lines 84-85
RecentAvgChange(stats) == RMean(ChangeCol(TailN(stats, RecentWindow)))

CategoryOf(symbol) == IF symbol \in Range(PSU_STOCKS) THEN "PSU" ELSE "Growth"

\* the dictionary returned at lines 87-94
Summary(symbol, stats) ==
    [Symbol |-> symbol,
     Category |-> CategoryOf(symbol),
     Avg_Monthly_Change |-> RMean(ChangeCol(stats)),
     Win_Rate |-> WinRate(stats),
     Recent_Trend_6M |-> RecentAvgChange(stats),
     Total_Months |-> Len(stats)]

\* What yf.download gives: it raises, or returns a dataframe (maybe empty).
FetchRaises == [kind |-> "raise"]
Fetched(df) == [kind |-> "df", df |-> df]
EmptyDf == << >>

NoStats == [monthly_stats |-> <<>>, raised |-> FALSE]

Outcome(symbol, fetch, loop, ret, log) ==
    [symbol |-> symbol, fetch |-> fetch, loop |-> loop, ret |-> ret, log |-> log]

\* the function without the check of lines 74-75: pd.DataFrame([]) has no
\* 'Change_Pct' column, and the KeyError ends in the handler
AfterLoopNoEmptyCheck(symbol, fetch, loop) ==
    IF loop.raised \/ loop.monthly_stats = <<>>
    THEN Outcome(symbol, fetch, loop, None, <<"Fetching data", "Error analyzing">>)
    ELSE Outcome(symbol, fetch, loop, Summary(symbol, loop.monthly_stats),
                 <<"Fetching data">>)

\* lines 74-98, once the loop over the months has ended: the exception
\* handler, the check of an empty monthly_stats, the summary
AfterLoop(symbol, fetch, loop) ==
    IF loop.raised
    THEN Outcome(symbol, fetch, loop, None, <<"Fetching data", "Error analyzing">>)
    ELSE IF loop.monthly_stats = <<>>
    THEN Outcome(symbol, fetch, loop, None, <<"Fetching data">>)
    ELSE Outcome(symbol, fetch, loop, Summary(symbol, loop.monthly_stats),
                 <<"Fetching data">>)

\* analyze_stock_pattern(symbol) when yf.download behaves as fetch: the
\* value returned, the lines printed, and the local monthly_stats.
analyze_stock_pattern(symbol, fetch) ==
    IF fetch.kind = "raise"
    THEN Outcome(symbol, fetch, NoStats, None, <<"Fetching data", "Error analyzing">>)
    ELSE IF DOMAIN fetch.df = {}
    THEN Outcome(symbol, fetch, NoStats, None, <<"Fetching data", "No data found">>)
    ELSE AfterLoop(symbol, fetch, MonthLoop(fetch.df, GroupByYearMonth(fetch.df), <<>>))

(***************************************************************************)
(* The dataframes the market data provider may return.                     *)
(***************************************************************************)
Closes == {0, 100, 110}

\* three consecutive calendar months across a year end, with the days
\* around the split of the month
RichDates == {<<2023, 12>>, <<2024, 1>>, <<2024, 2>>} \X {1, 15, 16}

Date(t) == <<t[1][1], t[1][2], t[2]>>

\* every dataframe of at most MaxRows trading days over RichDates
RichHistories ==
    UNION {[{Date(t) : t \in D} -> Closes] :
              D \in {S \in SUBSET RichDates : Cardinality(S) <= MaxRows}}

\* a month of a long history: a rise, a fall, or a first half only
Patterns == {"Up", "Down", "Skip"}

PatternRows(p) ==
    CASE p = "Up" -> {<<5, 100>>, <<20, 110>>}
      [] p = "Down" -> {<<3, 200>>, <<28, 190>>}
      [] p = "Skip" -> {<<5, 100>>}

LongRows(ps) ==
    UNION {{<<2024, m, r[1], r[2]>> : r \in PatternRows(ps[m])} : m \in 1..MaxMonths}

\* the dataframe of a set of rows <<year, month, day, close>>
DfOf(rows) ==
    [t \in {<<r[1], r[2], r[3]>> : r \in rows} |->
        (CHOOSE r \in rows : <<r[1], r[2], r[3]>> = t)[4]]

LongDf(ps) == DfOf(LongRows(ps))

\* MaxMonths months, each of one pattern
LongHistories == {LongDf(ps) : ps \in [1..MaxMonths -> Patterns]}

\* the example history: January rises 100 -> 110, February falls 200 -> 190
ExampleDf ==
    DfOf({<<2024, 1, 5, 100>>, <<2024, 1, 20, 110>>,
          <<2024, 2, 3, 200>>, <<2024, 2, 28, 190>>})

UpDf == DfOf({<<2024, 1, 5, 100>>, <<2024, 1, 20, 110>>})
DownDf == DfOf({<<2024, 2, 3, 200>>, <<2024, 2, 28, 190>>})
FirstHalfOnlyDf == DfOf({<<2024, 1, 5, 100>>, <<2024, 1, 10, 110>>})
ZeroCloseDf ==
    DfOf({<<2024, 1, 5, 0>>, <<2024, 1, 20, 110>>,
          <<2024, 2, 5, 100>>, <<2024, 2, 20, 110>>})

NamedHistories == {ExampleDf, UpDf, DownDf, FirstHalfOnlyDf, ZeroCloseDf}

Histories == RichHistories \cup LongHistories \cup NamedHistories

Fetches == {FetchRaises} \cup {Fetched(df) : df \in Histories}

(***************************************************************************)
(* One call of analyze_stock_pattern on any fetch outcome.                 *)
(***************************************************************************)
NotCalled(symbol, fetch) == Outcome(symbol, fetch, NoStats, None, <<>>)

InitAnalyze ==
    /\ pc = "call"
    /\ idx = 1
    /\ results = <<>>
    /\ results_df = <<>>
    /\ display_df = <<>>
    /\ csv = <<>>
    /\ top_picks = <<>>
    /\ fetched = <<>>
    /\ AIIdle
    /\ \E symbol \in {ALL_STOCKS[1], ALL_STOCKS[Len(ALL_STOCKS)]} :
         \E fetch \in Fetches : call = NotCalled(symbol, fetch)

AnalyzeCall ==
    /\ pc = "call"
    /\ call' = analyze_stock_pattern(call.symbol, call.fetch)
    /\ pc' = "returned"
    /\ UNCHANGED <<idx, results, results_df, display_df, csv, top_picks, fetched, ai_vars>>

NextAnalyze == AnalyzeCall

SpecAnalyze == InitAnalyze /\ [][NextAnalyze]_vars

(***************************************************************************)
(* main: the batch over ALL_STOCKS, ranking, display, saving, top picks.   *)
(***************************************************************************)
\* what the provider may answer for a symbol of the batch
BatchFetches ==
    {FetchRaises, Fetched(EmptyDf), Fetched(FirstHalfOnlyDf), Fetched(ZeroCloseDf),
     Fetched(UpDf), Fetched(DownDf), Fetched(ExampleDf)}

NoCall == NotCalled("", [kind |-> "none"])

Init ==
    /\ pc = "loop"
    /\ idx = 1
    /\ results = <<>>
    /\ results_df = <<>>
    /\ display_df = <<>>
    /\ csv = <<>>
    /\ top_picks = <<>>
    /\ fetched = <<>>
    /\ AIIdle
    /\ call = NoCall

\* lines 109-110: if result: results.append(result)
AppendResult(rs, ret) == IF ret = None THEN rs ELSE Append(rs, ret)

\* a loop that a failed symbol ends
NextSymbolBreak(i, ret) == IF ret = None THEN Len(ALL_STOCKS) + 1 ELSE i + 1

\* the for loop of line 107 goes on to the next symbol whatever the result
NextSymbol(i, ret) == i + 1

\* one iteration of the loop of lines 107-110
LoopBody ==
    /\ pc = "loop"
    /\ idx <= Len(ALL_STOCKS)
    /\ \E fetch \in BatchFetches :
         LET c == analyze_stock_pattern(ALL_STOCKS[idx], fetch)
             n == NextSymbol(idx, c.ret)
         IN  /\ call' = c
             /\ fetched' = Append(fetched, fetch)
             /\ results' = AppendResult(results, c.ret)
             /\ idx' = n
             /\ pc' = IF n > Len(ALL_STOCKS) THEN "sort" ELSE "loop"
    /\ UNCHANGED <<results_df, display_df, csv, top_picks, ai_vars>>

RECURSIVE DescendingOrders(_, _)
\* every arrangement of the rows of index set I in which Win_Rate never
\* increases: what a sort that need not be stable may return
DescendingOrders(rows, I) ==
    IF I = {} THEN {<<>>}
    ELSE UNION {{<<rows[i]>> \o t : t \in DescendingOrders(rows, I \ {i})} :
                   i \in {j \in I : \A k \in I : RLeq(rows[k].Win_Rate, rows[j].Win_Rate)}}

\* results_df.sort_values(by='Win_Rate', ascending=False): the default kind
\* is 'quicksort', which pandas documents as not stable
sort_values(rows) == DescendingOrders(rows, 1..Len(rows))

\* lines 113-116.  pd.DataFrame([]) has no columns, so sort_values raises
\* KeyError('Win_Rate'), which nothing catches.
SortResults ==
    /\ pc = "sort"
    /\ IF results = <<>>
       THEN /\ pc' = "crashed"
            /\ UNCHANGED results_df
       ELSE /\ results_df' \in sort_values(results)
            /\ pc' = "display"
    /\ UNCHANGED <<idx, results, display_df, csv, top_picks, fetched, call, ai_vars>>

RECURSIVE Pow10(_)
Pow10(k) == IF k = 0 THEN 1 ELSE 10 * Pow10(k - 1)

\* round to the nearest integer, halves to even
RoundHalfEven(n, d) ==
    LET q == n \div d
        r == n % d
    IN  IF 2 * r < d THEN q
        ELSE IF 2 * r > d THEN q + 1
        ELSE IF q % 2 = 0 THEN q ELSE q + 1

\* '{:+.2f}%'.format(x) and '{:.1f}%'.format(x): sign, digits before and
\* after the point
FormatFixed(x, places, plus) ==
    LET scaled == RoundHalfEven(Abs(x.n) * Pow10(places), x.d)
    IN  [sign |-> IF x.n < 0 THEN "-" ELSE IF plus THEN "+" ELSE "",
         units |-> scaled \div Pow10(places),
         decimals |-> scaled % Pow10(places),
         places |-> places]

\* lines 125-130
DisplayRow(r) ==
    [Symbol |-> r.Symbol, Category |-> r.Category,
     Win_Rate |-> FormatFixed(r.Win_Rate, 1, FALSE),
     Avg_Monthly_Change |-> FormatFixed(r.Avg_Monthly_Change, 2, TRUE),
     Recent_Trend_6M |-> FormatFixed(r.Recent_Trend_6M, 2, TRUE)]

Display ==
    /\ pc = "display"
    /\ display_df' = [i \in 1..Len(results_df) |-> DisplayRow(results_df[i])]
    /\ pc' = "save"
    /\ UNCHANGED <<idx, results, results_df, csv, top_picks, fetched, call, ai_vars>>

\* lines 133-135: results_df.to_csv(filename, index=False)
Save ==
    /\ pc = "save"
    /\ csv' = results_df
    /\ pc' = "top"
    /\ UNCHANGED <<idx, results, results_df, display_df, top_picks, fetched, call, ai_vars>>

\* lines 142-147
TopPickRow(r) ==
    [Symbol |-> r.Symbol, Category |-> r.Category,
     Consistency |-> FormatFixed(r.Win_Rate, 1, FALSE),
     Avg_Gain |-> FormatFixed(r.Avg_Monthly_Change, 2, TRUE)]

TopPicks ==
    /\ pc = "top"
    /\ top_picks' = [i \in 1..(IF Len(results_df) < TopN THEN Len(results_df) ELSE TopN)
                        |-> TopPickRow(results_df[i])]
    /\ pc' = "done"
    /\ UNCHANGED <<idx, results, results_df, display_df, csv, fetched, call, ai_vars>>

Next == LoopBody \/ SortResults \/ Display \/ Save \/ TopPicks

Spec == Init /\ [][Next]_vars

(***************************************************************************)
(* Vocabulary of the properties.                                           *)
(***************************************************************************)
Returned == pc = "returned"
ReturnedDf == pc = "returned" /\ call.fetch.kind = "df"
Ranked == pc \in {"display", "save", "top", "done"}

Observations == call.loop.monthly_stats
ObsKey(o) == <<o.Year, o.Month>>
ObsKeys == {ObsKey(Observations[i]) : i \in 1..Len(Observations)}

EarlyRows(df, k) == {t \in DOMAIN df : t[1] = k[1] /\ t[2] = k[2] /\ t[3] <= 15}
LateRows(df, k) == {t \in DOMAIN df : t[1] = k[1] /\ t[2] = k[2] /\ t[3] > 15}

\* the months of df with a price point in each half
PopulatedMonths(df) ==
    {k \in {<<t[1], t[2]>> : t \in DOMAIN df} : EarlyRows(df, k) # {} /\ LateRows(df, k) # {}}

\* the populated months whose first-half average close is 0
ZeroMonths(df) == {k \in PopulatedMonths(df) : SumSet(df, EarlyRows(df, k)) = 0}

Chrono(a, b) == a[1] < b[1] \/ (a[1] = b[1] /\ a[2] < b[2])

\* whether the analysis of the i-th symbol of the batch gave a result
Succeeded(i) == analyze_stock_pattern(ALL_STOCKS[i], fetched[i]).ret # None

RowsOfSymbol(sym) == {r \in 1..Len(results_df) : results_df[r].Symbol = sym}

(***************************************************************************)
(* C1.  In the batch, a failed symbol (fetch exception, empty download, no *)
(* usable month) never stops the loop: every symbol of ALL_STOCKS is       *)
(* processed, each symbol whose analysis succeeds has exactly one row in   *)
(* the ranked results (its own summary), each failed symbol has none.      *)
(***************************************************************************)
C1_FailuresIsolated ==
    pc # "loop" =>
        /\ Len(fetched) = Len(ALL_STOCKS)
        /\ pc # "sort" =>
             \A i \in 1..Len(ALL_STOCKS) :
                IF Succeeded(i)
                THEN /\ Cardinality(RowsOfSymbol(ALL_STOCKS[i])) = 1
                     /\ \A r \in RowsOfSymbol(ALL_STOCKS[i]) :
                           results_df[r] =
                              analyze_stock_pattern(ALL_STOCKS[i], fetched[i]).ret
                ELSE RowsOfSymbol(ALL_STOCKS[i]) = {}

\* a finished batch whose first symbol's fetch raised, whose second symbol
\* had no usable month, and whose last symbol was ranked
C1_Witness ==
    /\ pc = "done"
    /\ fetched[1] = FetchRaises
    /\ fetched[2] = Fetched(FirstHalfOnlyDf)
    /\ Succeeded(Len(ALL_STOCKS))
    /\ Cardinality(RowsOfSymbol(ALL_STOCKS[Len(ALL_STOCKS)])) = 1

(***************************************************************************)
(* C2.  A batch in which no symbol is analysed successfully ends normally  *)
(* with an empty report: it never crashes in ranking, display or saving.   *)
(***************************************************************************)
C2_EmptyBatchNoCrash ==
    (pc # "loop" /\ results = <<>>) => pc # "crashed"

(***************************************************************************)
(* C3 as claimed.  A month whose first-half average close is 0 is the only *)
(* thing excluded: the symbol's summary is still produced from its other   *)
(* months that have both halves populated.                                 *)
(***************************************************************************)
C3_OnlyMonthExcluded ==
    (ReturnedDf /\ ZeroMonths(call.fetch.df) # {}
                /\ PopulatedMonths(call.fetch.df) # ZeroMonths(call.fetch.df)) =>
        /\ call.ret # None
        /\ call.ret.Total_Months =
              Cardinality(PopulatedMonths(call.fetch.df) \ ZeroMonths(call.fetch.df))

(***************************************************************************)
(* C3 as amended.  When some month with both halves populated has a        *)
(* first-half average close of 0, the division raises, the handler of      *)
(* analyze_stock_pattern catches it, and the whole symbol is discarded:    *)
(* the call prints "Error analyzing" and returns None, whatever its other  *)
(* months are.                                                             *)
(***************************************************************************)
C3_SymbolDiscarded ==
    (ReturnedDf /\ ZeroMonths(call.fetch.df) # {}) =>
        /\ call.ret = None
        /\ call.log = <<"Fetching data", "Error analyzing">>

\* a symbol discarded although an earlier month of it was already observed
C3_Witness ==
    /\ ReturnedDf
    /\ ZeroMonths(call.fetch.df) # {}
    /\ PopulatedMonths(call.fetch.df) # ZeroMonths(call.fetch.df)
    /\ Len(Observations) >= 1
    /\ call.ret = None

(***************************************************************************)
(* C4 as claimed.  A history none of whose months has both halves          *)
(* populated ends in an outcome of its own, distinguishable from the       *)
(* outcome of a fetch failure and from that of an empty download.          *)
(***************************************************************************)
C4_EmptyHistoryDistinct ==
    (ReturnedDf /\ DOMAIN call.fetch.df # {} /\ PopulatedMonths(call.fetch.df) = {}) =>
        /\ call.ret # analyze_stock_pattern(call.symbol, FetchRaises).ret
        /\ call.ret # analyze_stock_pattern(call.symbol, Fetched(EmptyDf)).ret

(***************************************************************************)
(* C4 as amended.  A history none of whose months has both halves          *)
(* populated produces no summary: analyze_stock_pattern returns None, the  *)
(* very value it returns for a fetch failure and for an empty download;    *)
(* the three cases differ only in what is printed (here nothing after      *)
(* "Fetching data").                                                       *)
(***************************************************************************)
C4_EmptyHistoryReturnsNone ==
    (ReturnedDf /\ DOMAIN call.fetch.df # {} /\ PopulatedMonths(call.fetch.df) = {}) =>
        /\ call.ret = None
        /\ call.ret = analyze_stock_pattern(call.symbol, FetchRaises).ret
        /\ call.ret = analyze_stock_pattern(call.symbol, Fetched(EmptyDf)).ret
        /\ call.log = <<"Fetching data">>
        /\ call.log # analyze_stock_pattern(call.symbol, FetchRaises).log
        /\ call.log # analyze_stock_pattern(call.symbol, Fetched(EmptyDf)).log

\* a history with rows in the first half of one month and in the second
\* half of another, returned as None
C4_Witness ==
    /\ ReturnedDf
    /\ \E a, b \in DOMAIN call.fetch.df : a[3] <= 15 /\ b[3] > 15
    /\ PopulatedMonths(call.fetch.df) = {}
    /\ call.ret = None

(***************************************************************************)
(* C5 as claimed.  For every price history, an observation is emitted for  *)
(* a (year, month) bucket iff the bucket has a price point of day <= 15    *)
(* and one of day > 15, once per bucket; so a history with such a month    *)
(* yields at least one observation.                                        *)
(***************************************************************************)
C5_ObservationIffBothHalves ==
    ReturnedDf =>
        /\ ObsKeys = PopulatedMonths(call.fetch.df)
        /\ Len(Observations) = Cardinality(ObsKeys)
        /\ PopulatedMonths(call.fetch.df) # {} => Len(Observations) >= 1

(***************************************************************************)
(* C5 as amended.  For every price history in which no month with both     *)
(* halves populated has a first-half average of 0, an observation is       *)
(* emitted for a bucket iff the bucket has a price point of day <= 15 and  *)
(* one of day > 15, once per bucket, so that such a history with a         *)
(* populated month yields at least one observation.  When some populated   *)
(* month has a first-half average of 0, the loop stops there with an       *)
(* exception: observations exist only for the populated months before the  *)
(* first such month, and the symbol returns None.                          *)
(***************************************************************************)
C5_ObservationIffBothHalvesNoZero ==
    ReturnedDf =>
        LET df == call.fetch.df
        IN  /\ Len(Observations) = Cardinality(ObsKeys)
            /\ ZeroMonths(df) = {} =>
                 /\ ObsKeys = PopulatedMonths(df)
                 /\ PopulatedMonths(df) # {} => Len(Observations) >= 1
            /\ ZeroMonths(df) # {} =>
                 /\ ObsKeys = {k \in PopulatedMonths(df) :
                                  \A z \in ZeroMonths(df) : Chrono(k, z)}
                 /\ call.ret = None

\* a month whose first half is the 15th alone is observed, a month with one
\* half only is not
C5_Witness ==
    /\ ReturnedDf
    /\ ZeroMonths(call.fetch.df) = {}
    /\ \E k \in ObsKeys : \A t \in EarlyRows(call.fetch.df, k) : t[3] = 15
    /\ \E t \in DOMAIN call.fetch.df : <<t[1], t[2]>> \notin ObsKeys

(***************************************************************************)
(* C6.  Ranking orders the summaries by win_rate descending and is stable: *)
(* two summaries of equal win_rate keep the relative order they had in the *)
(* input (the order of ALL_STOCKS).                                        *)
(***************************************************************************)
PositionIn(rows, sym) == CHOOSE i \in 1..Len(rows) : rows[i].Symbol = sym

C6_RankingStable ==
    Ranked =>
        \A a, b \in 1..Len(results_df) :
            a < b =>
                /\ RLeq(results_df[b].Win_Rate, results_df[a].Win_Rate)
                /\ results_df[a].Win_Rate = results_df[b].Win_Rate =>
                      PositionIn(results, results_df[a].Symbol)
                         < PositionIn(results, results_df[b].Symbol)

(***************************************************************************)
(* C7.  For every non-empty sequence of observations, win_rate is          *)
(* (number of observations with change_pct > 0) / total_months * 100 with  *)
(* total_months the number of observations; it lies in [0, 100]; a month   *)
(* of change_pct 0 is no win; the example history (+10% then -5%) gives    *)
(* win_rate 50 and avg_monthly_change +2.5.                                *)
(***************************************************************************)
RECURSIVE CountPositive(_)
CountPositive(obs) ==
    IF obs = <<>> THEN 0
    ELSE (IF Head(obs).Change_Pct.n > 0 THEN 1 ELSE 0) + CountPositive(Tail(obs))

C7_WinRate ==
    (Returned /\ call.ret # None) =>
        LET n == Len(Observations)
            w == CountPositive(Observations)
        IN  /\ n >= 1
            /\ call.ret.Total_Months = n
            /\ call.ret.Win_Rate.n * n = 100 * w * call.ret.Win_Rate.d
            /\ call.ret.Win_Rate.n >= 0
            /\ call.ret.Win_Rate.n <= 100 * call.ret.Win_Rate.d
            /\ call.fetch.df = ExampleDf =>
                 /\ [i \in 1..n |-> Observations[i].Change_Pct] = <<RInt(10), RInt(-5)>>
                 /\ call.ret.Win_Rate = RInt(50)
                 /\ call.ret.Avg_Monthly_Change = [n |-> 5, d |-> 2]

\* the example history, summarised
C7_Witness ==
    /\ Returned
    /\ call.fetch.kind = "df"
    /\ call.fetch.df = ExampleDf
    /\ call.ret # None
    /\ call.ret.Win_Rate = RInt(50)

(***************************************************************************)
(* C8.  recent_trend_6m is the mean of change_pct over the last min(6, n)  *)
(* observations, n their number; so for n <= 6 it equals                   *)
(* avg_monthly_change.                                                     *)
(***************************************************************************)
C8_RecentTrend ==
    (Returned /\ call.ret # None) =>
        LET n == Len(Observations)
            k == IF n < 6 THEN n ELSE 6
            last == [i \in 1..k |-> Observations[n - k + i].Change_Pct]
        IN  /\ call.ret.Recent_Trend_6M = RMean(last)
            /\ n <= 6 => call.ret.Recent_Trend_6M = call.ret.Avg_Monthly_Change

\* seven months or more, where the window leaves a month out and the two
\* means differ
C8_Witness ==
    /\ Returned
    /\ call.ret # None
    /\ Len(Observations) > 6
    /\ call.ret.Recent_Trend_6M # call.ret.Avg_Monthly_Change

(***************************************************************************)
(* C9.  The observations built from a history are in strictly increasing   *)
(* (year, month) order, at most one per calendar month; so the last 6 used *)
(* for recent_trend_6m are those of the 6 most recent retained months.     *)
(***************************************************************************)
RECURSIVE RSumOver(_, _)
RSumOver(obs, I) ==
    IF I = {} THEN RInt(0)
    ELSE LET i == CHOOSE j \in I : TRUE
         IN  RAdd(obs[i].Change_Pct, RSumOver(obs, I \ {i}))

\* the observations with fewer than 6 observations of a later month
MostRecent ==
    {i \in 1..Len(Observations) :
        Cardinality({j \in 1..Len(Observations) :
                        Chrono(ObsKey(Observations[i]), ObsKey(Observations[j]))}) < 6}

C9_Chronological ==
    ReturnedDf =>
        /\ \A i, j \in 1..Len(Observations) :
              i < j => Chrono(ObsKey(Observations[i]), ObsKey(Observations[j]))
        /\ call.ret # None =>
              call.ret.Recent_Trend_6M =
                 RDiv(RSumOver(Observations, MostRecent), RInt(Cardinality(MostRecent)))

\* observations of December and of the January that follows it
C9_Witness ==
    /\ ReturnedDf
    /\ call.ret # None
    /\ \E i, j \in 1..Len(Observations) :
          /\ i < j
          /\ Observations[i].Year < Observations[j].Year
          /\ Observations[i].Month > Observations[j].Month

(***************************************************************************)
(* C10.  Every observation has trend "Up" iff its change_pct > 0 (its      *)
(* second-half average exceeds its first-half average) and "Down"          *)
(* otherwise; an observation of equal averages (change_pct 0) is "Down".   *)
(***************************************************************************)
C10_TrendLabel ==
    ReturnedDf =>
        \A i \in 1..Len(Observations) :
            LET o == Observations[i]
            IN  /\ o.Trend \in {"Up", "Down"}
                /\ o.Trend = "Up" <=> o.Change_Pct.n > 0
                /\ o.Trend = "Up" <=> RLess(o.Avg_First_Half, o.Avg_Second_Half)
                /\ o.Avg_Second_Half = o.Avg_First_Half =>
                      (o.Change_Pct = RInt(0) /\ o.Trend = "Down")

\* a month of equal averages, labelled "Down", beside a month labelled "Up"
C10_Witness ==
    /\ ReturnedDf
    /\ \E i, j \in 1..Len(Observations) :
          /\ Observations[i].Avg_Second_Half = Observations[i].Avg_First_Half
          /\ Observations[i].Trend = "Down"
          /\ Observations[j].Trend = "Up"

(***************************************************************************)
(* stock_top5_with_ai.py: selection of the stocks, and the main loop over  *)
(* them with the AI prediction and the live price of each.                 *)
(***************************************************************************)
\* rows of the Bhavcopy file read
NumBhavRows == 9
\* price_min, price_max and head(5) of main
price_min == 950
price_max == 1050
Top5 == 5

BhavRow(symbol, series, close, prev, high, low, qty) ==
    [SYMBOL |-> symbol, SERIES |-> series, CLOSE_PRICE |-> close, PREV_CLOSE |-> prev,
     HIGH_PRICE |-> high, LOW_PRICE |-> low, TTL_TRD_QNTY |-> qty]

\* the rows a Bhavcopy file may hold, SERIES as written in the file
BHAV_ROWS ==
    << BhavRow("AAA", " EQ", 1050, 1040, 1060, 1030, 5000),
       BhavRow("BBB", " EQ", 1051, 1000, 1070, 990, 100),
       BhavRow("CCC", " EQ", 1000, 990, 1010, 980, 7000),
       BhavRow("DDD", " BE", 1000, 1000, 1005, 995, 10),
       BhavRow("EEE", " EQ", 1000, 1010, 1020, 1000, 300),
       BhavRow("FFF", " EQ", 950, 960, 965, 940, 900),
       BhavRow("GGG", " EQ", 949, 950, 955, 940, 50),
       BhavRow("HHH", " EQ", 1020, 1000, 1025, 995, 2000),
       BhavRow("III", " EQ", 990, 985, 1000, 980, 800),
       BhavRow("JJJ", " EQ", 1010, 1005, 1015, 1000, 600) >>

\* pd.read_csv of a file of the first n rows
Bhavcopy(n) == SubSeq(BHAV_ROWS, 1, n)

\* str.strip on the SERIES values of the file
Strip(str) ==
    CASE str = " EQ" -> "EQ"
      [] str = " BE" -> "BE"
      [] OTHER -> str

\* lines 194-201: the EQ rows of close price within [price_min, price_max]
FilterRows(df) ==
    SelectSeq(df, LAMBDA r : /\ Strip(r.SERIES) = "EQ"
                             /\ r.CLOSE_PRICE >= price_min
                             /\ r.CLOSE_PRICE <= price_max)

RECURSIVE DescendingByClose(_, _)
\* every arrangement of the rows of index set I in which CLOSE_PRICE never
\* increases (sort_values with the default kind, not stable)
DescendingByClose(rows, I) ==
    IF I = {} THEN {<<>>}
    ELSE UNION {{<<rows[i]>> \o t : t \in DescendingByClose(rows, I \ {i})} :
                   i \in {j \in I : \A k \in I : rows[k].CLOSE_PRICE <= rows[j].CLOSE_PRICE}}

HeadN(rows, n) == IF Len(rows) <= n THEN rows ELSE SubSeq(rows, 1, n)

\* lines 192-203: what top5_stocks may be for the file read
SelectTop5(df) ==
    {HeadN(sorted, Top5) :
        sorted \in DescendingByClose(FilterRows(df), 1..Len(FilterRows(df)))}

\* get_stock_context: the pivot resistance r1 and support s1 returned with
\* the context text
get_stock_context(row) ==
    LET pivot == Rat(row.HIGH_PRICE + row.LOW_PRICE + row.CLOSE_PRICE, 3)
    IN  [r1 |-> RSub(RMul(RInt(2), pivot), RInt(row.LOW_PRICE)),
         s1 |-> RSub(RMul(RInt(2), pivot), RInt(row.HIGH_PRICE))]

\* JSON values of the AI's answer
Number(x) == [type |-> "number", v |-> x]
String(x) == [type |-> "string", v |-> x]

\* What predict_target_with_ai may return: None (the call raised, or the
\* text held no JSON object), or the dictionary parsed from the text, which
\* may be empty, lack keys, or hold a price that is a string.
AIOutcomes ==
    { None,
      << >>,
      [predicted_price |-> Number(RInt(1015)), sentiment |-> "Bullish",
       confidence |-> 8, reason |-> "Momentum"],
      [confidence |-> 3],
      [predicted_price |-> String(RInt(1015)), sentiment |-> "Bearish",
       confidence |-> 6, reason |-> "Resistance"] }

\* What get_live_price may return: None (any failure), or the float parsed
LiveOutcomes == {None, RInt(0), RInt(1003)}

IsNone(x) == "IsNone" \in DOMAIN x

\* truth value of "if ai_prediction:" -- None and {} are false
AITruthy(ai) == ~IsNone(ai) /\ DOMAIN ai # {}

\* truth value of "if live_price:" -- None and 0.0 are false
LiveTruthy(live) == ~IsNone(live) /\ live.n # 0

\* dict.get(key, default)
DictGet(d, key, default) == IF key \in DOMAIN d THEN d[key] ELSE default

\* f"{target_price:.2f}" of line 243 raises for a value that is no number
FormatRaises(value) == value.type # "number"

\* lines 231-254: target, stop loss, sentiment and reasoning of a stock, or
\* the exception raised while printing the AI analysis
Prediction(ai, ctx) ==
    IF AITruthy(ai)
    THEN LET target_price == DictGet(ai, "predicted_price", Number(ctx.r1))
         IN  [raised |-> FormatRaises(target_price),
              Target_Price |-> target_price.v,
              Stop_Loss |-> ctx.s1,
              Sentiment |-> DictGet(ai, "sentiment", "Neutral"),
              Reasoning |-> DictGet(ai, "reason", "Based on technical analysis")]
    ELSE [raised |-> FALSE,
          Target_Price |-> ctx.r1,
          Stop_Loss |-> ctx.s1,
          Sentiment |-> "Neutral",
          Reasoning |-> "Pivot Point Resistance (R1)"]

\* lines 260-268
LivePriceOf(live, close_price) == IF LiveTruthy(live) THEN live ELSE RInt(close_price)

\* lines 271-279
ResultRow(row, p, live) ==
    [Symbol |-> row.SYMBOL,
     Close_Price |-> RInt(row.CLOSE_PRICE),
     Live_Price |-> LivePriceOf(live, row.CLOSE_PRICE),
     Target_Price |-> p.Target_Price,
     Stop_Loss |-> p.Stop_Loss,
     Sentiment |-> p.Sentiment,
     Reasoning |-> p.Reasoning]

InitAI ==
    /\ pc = "ai_start"
    /\ idx = 1
    /\ results = <<>>
    /\ results_df = <<>>
    /\ display_df = <<>>
    /\ csv = <<>>
    /\ top_picks = <<>>
    /\ fetched = <<>>
    /\ call = NoCall
    /\ AIIdle

\* lines 185-209: no file ends the run; a file is read, filtered, sorted
\* and cut to five rows
LoadAndSelect ==
    /\ pc = "ai_start"
    /\ \/ /\ pc' = "ai_exit"
          /\ UNCHANGED top5_stocks
       \/ \E n \in 0..NumBhavRows :
             /\ top5_stocks' \in SelectTop5(Bhavcopy(n))
             /\ pc' = "ai_loop"
    /\ UNCHANGED <<idx, results, results_df, display_df, csv, top_picks, fetched, call,
                   ai_results, summary_df, outcomes>>

\* one iteration of the loop of lines 211-279.  The exception of line 243
\* is caught nowhere: it ends main before the live price is fetched.
AILoopBody ==
    /\ pc = "ai_loop"
    /\ idx <= Len(top5_stocks)
    /\ \E ai \in AIOutcomes :
         LET row == top5_stocks[idx]
             p == Prediction(ai, get_stock_context(row))
         IN  IF p.raised
             THEN /\ outcomes' = Append(outcomes, [ai |-> ai, live |-> None])
                  /\ pc' = "ai_crashed"
                  /\ UNCHANGED <<idx, ai_results>>
             ELSE \E live \in LiveOutcomes :
                  /\ outcomes' = Append(outcomes, [ai |-> ai, live |-> live])
                  /\ ai_results' = Append(ai_results, ResultRow(row, p, live))
                  /\ idx' = idx + 1
                  /\ pc' = "ai_loop"
    /\ UNCHANGED <<results, results_df, display_df, csv, top_picks, fetched, call,
                   top5_stocks, summary_df>>

\* lines 282-292: the summary printed and saved, once the loop has ended
AISummary ==
    /\ pc = "ai_loop"
    /\ idx > Len(top5_stocks)
    /\ summary_df' = ai_results
    /\ pc' = "ai_done"
    /\ UNCHANGED <<idx, results, results_df, display_df, csv, top_picks, fetched, call,
                   top5_stocks, ai_results, outcomes>>

NextAI == LoadAndSelect \/ AILoopBody \/ AISummary

SpecAI == InitAI /\ [][NextAI]_vars

(***************************************************************************)
(* C11.  In the main loop of stock_top5_with_ai.py, whatever the AI call   *)
(* (a prediction returned, or none) and the live-price call (a price, or   *)
(* none) give for each selected stock: exactly one result row is appended  *)
(* per selected stock, in selection order; its Stop_Loss is the pivot      *)
(* support S1; without an AI prediction its Target_Price is the pivot      *)
(* resistance R1 and its Sentiment "Neutral"; without a live price its     *)
(* Live_Price is the stock's Close_Price.                                  *)
(***************************************************************************)
AIRunning == pc \in {"ai_loop", "ai_done", "ai_crashed"}

\* S1 and R1 of a Bhavcopy row, from its high, low and close
PivotS1(row) ==
    Rat(2 * (row.HIGH_PRICE + row.LOW_PRICE + row.CLOSE_PRICE) - 3 * row.HIGH_PRICE, 3)
PivotR1(row) ==
    Rat(2 * (row.HIGH_PRICE + row.LOW_PRICE + row.CLOSE_PRICE) - 3 * row.LOW_PRICE, 3)

C11_OneRowPerStock ==
    AIRunning =>
        \* every stock the loop has taken up has its row
        /\ Len(ai_results) = Len(outcomes)
        \* and the run ends with a row for every selected stock
        /\ pc # "ai_loop" => Len(ai_results) = Len(top5_stocks)
        /\ \A i \in 1..Len(ai_results) :
              LET row == ai_results[i]
                  stock == top5_stocks[i]
              IN  /\ row.Symbol = stock.SYMBOL
                  /\ row.Close_Price = RInt(stock.CLOSE_PRICE)
                  /\ row.Stop_Loss = PivotS1(stock)
                  /\ IsNone(outcomes[i].ai) =>
                        (row.Target_Price = PivotR1(stock) /\ row.Sentiment = "Neutral")
                  /\ IsNone(outcomes[i].live) => row.Live_Price = row.Close_Price

====
